---------------------------- MODULE Spec2Model ----------------------------
(***************************************************************************)
(* Effects algebra and estimation engine of Causing (src/utils.py).        *)
(*                                                                         *)
(* Matrices are tuples of rows, M[i][j] with i, j counted from 1 (the      *)
(* source counts from 0).  Floating point numbers are modelled by exact    *)
(* numbers: the inputs are small integers, and the results of the matrix   *)
(* inversion are exact rationals <<numerator, denominator>>.               *)
(***************************************************************************)
EXTENDS Integers, Sequences, FiniteSets, TLC

VARIABLES
    pc,         \* position of the caller: which operation has returned
    mx, my,     \* direct effects (the parameters of the estimation)
    idx, idy,   \* identification matrices of the direct effects
    direct,     \* result of directvec_alg
    direct_ad,  \* result of directvec
    back,       \* result of directmat: [mx, my]
    edx, edy,   \* total effects identification matrices (None: not supplied)
    ex, ey,     \* total effects
    err,        \* exception raised by the last call ("none" when it returned)
    med,        \* result of compute_mediation_effects: [exj, eyj, eyx, eyy]
    fd,         \* result of compute_fd: [fdxj, fdyj, fdx, fdy]
    final_var,  \* final variable of the mediation
    pre,        \* the arguments of the last call, as they were before it (in the
                \* estimation: mx, my as the last forward pass got them)
    epoch, nr_conv, sse, sse_old,   \* locals of optimize_ssn
    adam,       \* state of the optimizer: [mx, my], sign of the first moment
    data,       \* what the observed data can produce: [sse, grad] value sets
    last_nonconv, \* history: value of epoch after the last step that was not converged
    arg,        \* the arguments of the current call, as they are now
    ret         \* the value the last call returned, or the arguments of the exception
                \* it raised (None: neither)

vars == <<pc, mx, my, idx, idy, direct, direct_ad, back, edx, edy, ex, ey, err,
          med, fd, final_var, pre, epoch, nr_conv, sse, sse_old, adam, data,
          last_nonconv, arg, ret>>

vecVars == <<direct, direct_ad, back>>
effVars == <<edx, edy, ex, ey, err, med, fd, final_var, pre>>
optVars == <<epoch, nr_conv, sse, sse_old, adam, data, last_nonconv>>
callVars == <<arg, ret>>

-----------------------------------------------------------------------------
(* The model instance: variable names and dimensions.                      *)

yvars == <<"y1", "y2", "y3">>
xvars == <<"x1", "x2">>
ndim == Len(yvars)
mdim == Len(xvars)

\* The Python value None.
None == <<>>

-----------------------------------------------------------------------------
(* Matrices.                                                               *)

Rows(M) == Len(M)
Cols(M) == Len(M[1])

zeros(r, c) == [i \in 1..r |-> [j \in 1..c |-> 0]]
ones(r, c) == [i \in 1..r |-> [j \in 1..c |-> 1]]
eye(n) == [i \in 1..n |-> [j \in 1..n |-> IF i = j THEN 1 ELSE 0]]

\* Elementwise product of two integer matrices (numpy's and torch's *).
Hadamard(A, B) == [i \in 1..Rows(A) |-> [j \in 1..Cols(A) |-> A[i][j] * B[i][j]]]

\* numpy.count_nonzero.
count_nonzero(M) == Cardinality({p \in (1..Rows(M)) \X (1..Cols(M)) : M[p[1]][p[2]] # 0})

\* The positions <<i, j>> of an r x c matrix, rows traversed within each column.
ColumnMajor(r, c) == [k \in 1..(r * c) |-> <<((k - 1) % r) + 1, ((k - 1) \div r) + 1>>]

\* The positions <<i, j>> of an r x c matrix, columns traversed within each row.
RowMajor(r, c) == [k \in 1..(r * c) |-> <<((k - 1) \div c) + 1, ((k - 1) % c) + 1>>]

\* numpy's boolean-mask indexing M.T[id.T == 1]: the positions where id is 1, in
\* the row-major order of the transposed matrices, which is column-major in M.
MaskPositionsT(id) ==
    SelectSeq(ColumnMajor(Rows(id), Cols(id)), LAMBDA p : id[p[1]][p[2]] = 1)

\* The positions visited by the loops for i: for j: if id[i, j] == 1.
LoopPositions(id) ==
    SelectSeq(RowMajor(Rows(id), Cols(id)), LAMBDA p : id[p[1]][p[2]] = 1)

IndexIn(s, p) == CHOOSE k \in 1..Len(s) : s[k] = p
InSeq(s, p) == \E k \in 1..Len(s) : s[k] = p

\* A zero r x c matrix whose positions pos[k] hold vals[k].
Scatter(r, c, pos, vals) ==
    [i \in 1..r |-> [j \in 1..c |->
        IF InSeq(pos, <<i, j>>) THEN vals[IndexIn(pos, <<i, j>>)] ELSE 0]]

Gather(M, pos) == [k \in 1..Len(pos) |-> M[pos[k][1]][pos[k][2]]]

-----------------------------------------------------------------------------
(* Vectorization (src/utils.py, directmat .. directvec).                   *)

directvec_alg(mx_, my_, idx_, idy_) ==
    LET directy == Gather(my_, MaskPositionsT(idy_))
        directx == Gather(mx_, MaskPositionsT(idx_))
    IN  directy \o directx

directvec(mx_, my_, idx_, idy_) ==
    Gather(my_, LoopPositions(idy_)) \o Gather(mx_, LoopPositions(idx_))

directmat_rowwise(direct_, idx_, idy_) ==
    LET qydim == count_nonzero(idy_)
    IN  [mx |-> Scatter(Rows(idx_), Cols(idx_), LoopPositions(idx_),
                        SubSeq(direct_, qydim + 1, Len(direct_))),
         my |-> Scatter(Rows(idx_), Rows(idx_), LoopPositions(idy_),
                        SubSeq(direct_, 1, qydim))]

directmat(direct_, idx_, idy_) ==
    LET qydim == count_nonzero(idy_)
    IN  [mx |-> Scatter(Rows(idx_), Cols(idx_), MaskPositionsT(idx_),
                        SubSeq(direct_, qydim + 1, Len(direct_))),
         my |-> Scatter(Rows(idx_), Rows(idx_), MaskPositionsT(idy_),
                        SubSeq(direct_, 1, qydim))]

coeffmat(direct_, idx_, idy_) ==
    LET posy == LoopPositions(idy_)
        posx == LoopPositions(idx_)
    IN  [mx |-> Scatter(Rows(idx_), Cols(idx_), posx,
                        SubSeq(direct_, Len(posy) + 1, Len(posy) + Len(posx))),
         my |-> Scatter(Rows(idx_), Rows(idx_), posy, SubSeq(direct_, 1, Len(posy)))]

-----------------------------------------------------------------------------
(* Exact rational numbers <<n, d>>, d > 0, in lowest terms.                *)

Abs(a) == IF a < 0 THEN -a ELSE a

RECURSIVE GCD(_, _)
GCD(a, b) == IF b = 0 THEN a ELSE GCD(b, a % b)

\* n / d in lowest terms, d # 0.
Frac(n, d) ==
    LET g == GCD(Abs(n), Abs(d))
        s == IF d < 0 THEN -1 ELSE 1
    IN  <<(s * n) \div g, Abs(d) \div g>>

R(a) == <<a, 1>>
RAdd(p, q) == Frac(p[1] * q[2] + q[1] * p[2], p[2] * q[2])
RMul(p, q) == Frac(p[1] * q[1], p[2] * q[2])

RatMat(M) == [i \in 1..Len(M) |-> [j \in 1..Len(M[i]) |-> R(M[i][j])]]
RatVec(v) == [i \in 1..Len(v) |-> R(v[i])]

RECURSIVE RSum(_, _)
\* f[1] + ... + f[n] for a sequence of rationals.
RSum(f, n) == IF n = 0 THEN R(0) ELSE RAdd(RSum(f, n - 1), f[n])

\* The matrix product A @ B of rational matrices.
RMatMul(A, B) ==
    [i \in 1..Len(A) |-> [j \in 1..Len(B[1]) |->
        RSum([k \in 1..Len(B) |-> RMul(A[i][k], B[k][j])], Len(B))]]

-----------------------------------------------------------------------------
(* numpy.linalg.inv of an integer matrix: adjugate over determinant.       *)

Minor(M, r, c) ==
    [i \in 1..(Len(M) - 1) |-> [j \in 1..(Len(M) - 1) |->
        M[IF i < r THEN i ELSE i + 1][IF j < c THEN j ELSE j + 1]]]

RECURSIVE Det(_)
RECURSIVE DetRow(_, _)
\* Laplace expansion along the first row, columns 1..n.
DetRow(M, n) ==
    IF n = 0 THEN 0
    ELSE DetRow(M, n - 1)
         + (IF n % 2 = 1 THEN 1 ELSE -1) * M[1][n] * Det(Minor(M, 1, n))
Det(M) == IF Len(M) = 1 THEN M[1][1] ELSE DetRow(M, Len(M))

Cofactor(M, r, c) ==
    (IF (r + c) % 2 = 0 THEN 1 ELSE -1)
    * (IF Len(M) = 1 THEN 1 ELSE Det(Minor(M, r, c)))

\* Defined when Det(M) # 0; numpy raises LinAlgError("Singular matrix") otherwise.
inv(M) ==
    LET d == Det(M)
    IN  [i \in 1..Len(M) |-> [j \in 1..Len(M) |-> Frac(Cofactor(M, j, i), d)]]

-----------------------------------------------------------------------------
(* Effects algebra and identification (src/utils.py, compute_ed ..         *)
(* total_effects_alg, compute_mediation_effects, digital).                 *)

digital_isone(mat) ==
    [i \in 1..Len(mat) |-> [j \in 1..Len(mat[i]) |-> IF mat[i][j] = R(1) THEN 1 ELSE 0]]

\* digital, matrix branch: 1 where the element is unequal zero.
digital(mat) ==
    [i \in 1..Len(mat) |-> [j \in 1..Len(mat[i]) |-> IF mat[i][j] # R(0) THEN 1 ELSE 0]]

\* digital, vector branch.
digital_vec(mat) == [i \in 1..Len(mat) |-> IF mat[i] # R(0) THEN 1 ELSE 0]

RECURSIVE SumAbsDiag(_, _)
\* sum(abs(diag(my))) over the first n diagonal elements.
SumAbsDiag(M, n) == IF n = 0 THEN 0 ELSE SumAbsDiag(M, n - 1) + Abs(M[n][n])

RECURSIVE SumDiag(_, _)
SumDiag(M, n) == IF n = 0 THEN 0 ELSE SumDiag(M, n - 1) + M[n][n]

\* ex[edx == 0] = 0
MaskZero(e, ed) ==
    [i \in 1..Len(e) |-> [j \in 1..Len(e[i]) |-> IF ed[i][j] = 0 THEN R(0) ELSE e[i][j]]]

\* numpy.fill_diagonal(ey, 1)
fill_diagonal(e, v) ==
    [i \in 1..Len(e) |-> [j \in 1..Len(e[i]) |-> IF i = j THEN R(v) ELSE e[i][j]]]

MatSub(A, B) == [i \in 1..Len(A) |-> [j \in 1..Len(A[i]) |-> A[i][j] - B[i][j]]]

NotNormalized_noabs(my_) == SumDiag(my_, Len(my_)) > 0

\* The normalization test of total_effects_alg.
NotNormalized(my_) == SumAbsDiag(my_, Len(my_)) > 0

CleanEy_nofill(ey_, edy_) == MaskZero(ey_, edy_)

\* The identification cleanup of ey: zero where edy is 0, then unity diagonal.
CleanEy(ey_, edy_) == fill_diagonal(MaskZero(ey_, edy_), 1)

MatAdd(A, B) == [i \in 1..Len(A) |-> [j \in 1..Len(A[i]) |-> A[i][j] + B[i][j]]]

Structural_plus(my_) == MatAdd(eye(Len(my_)), my_)

\* eye(ndim) - my, the matrix that is inverted.
Structural(my_) == MatSub(eye(Len(my_)), my_)

\* Returns [err, ex, ey]; err is the exception raised, "none" when it returns.
total_effects_alg(mx_, my_, edx_, edy_) ==
    LET a == Structural(my_)
    IN  IF NotNormalized(my_)
            THEN [err |-> "ValueError", ex |-> None, ey |-> None]
        ELSE IF Det(a) = 0
            THEN [err |-> "LinAlgError", ex |-> None, ey |-> None]
        ELSE LET ey0 == inv(a)
                 ex0 == RMatMul(ey0, RatMat(mx_))
             IN  [err |-> "none",
                  ex |-> IF edx_ # None THEN MaskZero(ex0, edx_) ELSE ex0,
                  ey |-> IF edy_ # None THEN CleanEy(ey0, edy_) ELSE ey0]

\* Returns [err, edx, edy].
compute_ed(idx_, idy_) ==
    LET te == total_effects_alg(idx_, idy_, None, None)
    IN  IF te.err # "none"
            THEN [err |-> te.err, edx |-> None, edy |-> None]
            ELSE [err |-> "none", edx |-> digital(te.ex), edy |-> digital(te.ey)]

\* list(yvars).index(final_var), counted from 1.
IndexOf(yvars_, final_var_) == CHOOSE k \in 1..Len(yvars_) : yvars_[k] = final_var_

compute_mediation_effects_cols(mx_, my_, ex_, ey_, yvars_, final_var_) ==
    LET n == Len(mx_)
        m == Len(mx_[1])
        jvar == IndexOf(yvars_, final_var_)
        eyj == ey_[jvar]
    IN  [exj |-> ex_[jvar],
         eyj |-> eyj,
         eyx |-> [i \in 1..n |-> [j \in 1..m |-> RMul(eyj[j], mx_[i][j])]],
         eyy |-> [i \in 1..n |-> [j \in 1..n |-> RMul(eyj[j], my_[i][j])]]]

\* All arguments are rational matrices.  Returns [exj, eyj, eyx, eyy].
compute_mediation_effects(mx_, my_, ex_, ey_, yvars_, final_var_) ==
    LET n == Len(mx_)
        m == Len(mx_[1])
        jvar == IndexOf(yvars_, final_var_)
        exj == ex_[jvar]
        eyj == ey_[jvar]
        col == [i \in 1..n |-> <<eyj[i]>>]      \* eyj.reshape(ndim, 1)
        outerx == RMatMul(col, RatMat(ones(1, m)))
        outery == RMatMul(col, RatMat(ones(1, n)))
    IN  [exj |-> exj,
         eyj |-> eyj,
         eyx |-> [i \in 1..n |-> [j \in 1..m |-> RMul(outerx[i][j], mx_[i][j])]],
         eyy |-> [i \in 1..n |-> [j \in 1..n |-> RMul(outery[i][j], my_[i][j])]]]

compute_fd_ed(idx_, idy_, yvars_, final_var_) ==
    LET ed == compute_ed(idx_, idy_)
    IN  IF ed.err # "none"
            THEN [err |-> ed.err, fdxj |-> None, fdyj |-> None, fdx |-> None, fdy |-> None]
            ELSE LET me == compute_mediation_effects(
                               RatMat(ed.edx), RatMat(ed.edy), RatMat(ed.edx), RatMat(ed.edy),
                               yvars_, final_var_)
                 IN  [err |-> "none",
                      fdxj |-> digital_vec(me.exj),
                      fdyj |-> digital_vec(me.eyj),
                      fdx |-> digital(me.eyx),
                      fdy |-> digital(me.eyy)]

\* Returns [err, fdxj, fdyj, fdx, fdy].
compute_fd(idx_, idy_, yvars_, final_var_) ==
    LET ed == compute_ed(idx_, idy_)
    IN  IF ed.err # "none"
            THEN [err |-> ed.err, fdxj |-> None, fdyj |-> None, fdx |-> None, fdy |-> None]
            ELSE LET me == compute_mediation_effects(
                               RatMat(idx_), RatMat(idy_), RatMat(ed.edx), RatMat(ed.edy),
                               yvars_, final_var_)
                 IN  [err |-> "none",
                      fdxj |-> digital_vec(me.exj),
                      fdyj |-> digital_vec(me.eyj),
                      fdx |-> digital(me.eyx),
                      fdy |-> digital(me.eyy)]

-----------------------------------------------------------------------------
(* Bounds and input families.                                              *)

\* The size of an input of the effects algebra is at most MaxNnz: every nonzero
\* direct effect counts 1, one on the diagonal of my counts 2, and so does every
\* zero of an identification matrix that a caller supplies.
MaxNnz == 4

\* The nonzero values a direct effect takes, in my and in mx.
YVals == {-1, 1}
XVals == {2}

PosX == (1..ndim) \X (1..mdim)
PosY == (1..ndim) \X (1..ndim)

BinaryMats(r, c) == [1..r -> [1..c -> {0, 1}]]
ZeroDiag(M) == \A i \in 1..Len(M) : M[i][i] = 0

\* Places "x" (in mx) and "y" (in my) of the direct effects.
Places == ({"x"} \X PosX) \cup ({"y"} \X PosY)
OnDiag(p) == p[1] = "y" /\ p[2][1] = p[2][2]
Weight(T) == Cardinality(T) + Cardinality({p \in T : OnDiag(p)})

\* The sets of places of weight at most MaxNnz, by weight.
SmallSets == [k \in 0..MaxNnz |-> {T \in SUBSET Places : Weight(T) = k}]
UpTo(k) == UNION {SmallSets[h] : h \in 0..k}

\* The sets of places where a supplied identification matrix may be zero.
ZeroSets == {T \in SUBSET Places : 2 * Cardinality(T) <= MaxNnz}

\* The values of the direct effects at the places T.
Fillings(T) == {f \in [T -> XVals \cup YVals] :
                   \A p \in T : f[p] \in (IF p[1] = "x" THEN XVals ELSE YVals)}

\* The matrix with f[<<tag, p>>] at the places p of T under tag, fill elsewhere.
Place(tag, r, c, T, f, fill) ==
    [i \in 1..r |-> [j \in 1..c |->
        IF <<tag, <<i, j>>>> \in T THEN f[<<tag, <<i, j>>>>] ELSE fill]]

\* Sample values for the vectorization: all entries distinct, and small with zeros.
MxSamples == {[i \in 1..ndim |-> [j \in 1..mdim |-> 100 + 10 * i + j]],
              [i \in 1..ndim |-> [j \in 1..mdim |-> ((i + 2 * j) % 3) - 1]]}
MySamples == {[i \in 1..ndim |-> [j \in 1..ndim |-> 10 * i + j]],
              [i \in 1..ndim |-> [j \in 1..ndim |-> ((2 * i + j) % 3) - 1]]}

Idle == /\ direct = None /\ direct_ad = None /\ back = None
        /\ edx = None /\ edy = None /\ ex = None /\ ey = None
        /\ err = "none" /\ med = None /\ fd = None
        /\ final_var = yvars[1] /\ pre = None
        /\ epoch = 0 /\ nr_conv = 0 /\ sse = 0 /\ sse_old = 1
        /\ adam = None /\ data = None /\ last_nonconv = 0

IdleCall == arg = None /\ ret = None

-----------------------------------------------------------------------------
(* Vectorization: directvec_alg, directvec, directmat called in turn.      *)

InitVec ==
    /\ pc = "vec"
    /\ idx \in BinaryMats(ndim, mdim)
    /\ idy \in {M \in BinaryMats(ndim, ndim) : ZeroDiag(M)}
    /\ mx \in MxSamples
    /\ my \in MySamples
    /\ Idle
    /\ IdleCall

DirectvecAlg ==
    /\ pc = "vec"
    /\ direct' = directvec_alg(mx, my, idx, idy)
    /\ pc' = "vec_alg"
    /\ UNCHANGED <<mx, my, idx, idy, direct_ad, back, effVars, optVars, callVars>>

Directvec ==
    /\ pc = "vec_alg"
    /\ direct_ad' = directvec(mx, my, idx, idy)
    /\ pc' = "vec_ad"
    /\ UNCHANGED <<mx, my, idx, idy, direct, back, effVars, optVars, callVars>>

Directmat ==
    /\ pc = "vec_ad"
    /\ back' = directmat(direct, idx, idy)
    /\ pc' = "vec_mat"
    /\ UNCHANGED <<mx, my, idx, idy, direct, direct_ad, effVars, optVars, callVars>>

NextVec == DirectvecAlg \/ Directvec \/ Directmat

SpecVec == InitVec /\ [][NextVec]_vars

-----------------------------------------------------------------------------
(* Effects algebra: compute_ed, compute_fd, total_effects_alg and          *)
(* compute_mediation_effects, called as create_model and                   *)
(* total_from_direct call them.                                            *)

\* The identification matrix of numeric direct effects (their support).
Support(M) == [i \in 1..Len(M) |-> [j \in 1..Len(M[i]) |-> IF M[i][j] # 0 THEN 1 ELSE 0]]

InitEff ==
    /\ pc = "eff"
    /\ \E T \in UpTo(MaxNnz) : \E f \in Fillings(T) :
          /\ mx = Place("x", ndim, mdim, T, f, 0)
          /\ my = Place("y", ndim, ndim, T, f, 0)
    /\ idx = Support(mx)
    /\ idy = Support(my)
    /\ Idle
    /\ IdleCall

ComputeEd ==
    /\ pc = "eff"
    /\ LET r == compute_ed(idx, idy)
       IN  IF r.err # "none"
               THEN /\ err' = r.err
                    /\ pc' = "ed_raised"
                    /\ UNCHANGED <<edx, edy>>
               ELSE /\ edx' = r.edx
                    /\ edy' = r.edy
                    /\ pc' = "ed"
                    /\ UNCHANGED err
    /\ UNCHANGED <<mx, my, idx, idy, ex, ey, med, fd, final_var, pre, vecVars, optVars, callVars>>

\* The size of the direct effects mx, my.
InputSize(mx_, my_) ==
    count_nonzero(mx_) + count_nonzero(my_)
    + Cardinality({i \in 1..Len(my_) : my_[i][i] # 0})

\* A caller passes identification matrices of its own.
SupplyEd ==
    /\ pc = "eff"
    /\ \E T \in ZeroSets :
          /\ 2 * Cardinality(T) + InputSize(mx, my) <= MaxNnz
          /\ edx' = Place("x", ndim, mdim, T, [p \in T |-> 0], 1)
          /\ edy' = Place("y", ndim, ndim, T, [p \in T |-> 0], 1)
    /\ pc' = "given"
    /\ UNCHANGED <<mx, my, idx, idy, ex, ey, err, med, fd, final_var, pre, vecVars, optVars, callVars>>

TotalEffectsAlg ==
    /\ pc \in {"eff", "ed", "given"}
    /\ LET r == total_effects_alg(mx, my, edx, edy)
       IN  IF r.err # "none"
               THEN /\ err' = r.err
                    /\ pc' = "te_raised"
                    /\ UNCHANGED <<ex, ey>>
               ELSE /\ ex' = r.ex
                    /\ ey' = r.ey
                    /\ pc' = CASE pc = "eff" -> "te_none"
                               [] pc = "ed" -> "te_ed"
                               [] OTHER -> "te_given"
                    /\ UNCHANGED err
    /\ pre' = [from |-> pc]
    /\ UNCHANGED <<mx, my, idx, idy, edx, edy, med, fd, final_var, vecVars, optVars, callVars>>

ComputeMediationEffects ==
    /\ pc \in {"te_none", "te_ed"}
    /\ \E fv \in {yvars[k] : k \in 1..ndim} :
          /\ final_var' = fv
          /\ med' = compute_mediation_effects(RatMat(mx), RatMat(my), ex, ey, yvars, fv)
    /\ pre' = [from |-> pc, mx |-> mx, my |-> my, ex |-> ex, ey |-> ey]
    /\ pc' = "med"
    /\ UNCHANGED <<mx, my, idx, idy, edx, edy, ex, ey, err, fd, vecVars, optVars, callVars>>

ComputeFd ==
    /\ pc = "eff"
    /\ \E fv \in {yvars[k] : k \in 1..ndim} :
          /\ final_var' = fv
          /\ LET r == compute_fd(idx, idy, yvars, fv)
             IN  IF r.err # "none"
                     THEN /\ err' = r.err
                          /\ pc' = "fd_raised"
                          /\ UNCHANGED fd
                     ELSE /\ fd' = r
                          /\ pc' = "fd"
                          /\ UNCHANGED err
    /\ UNCHANGED <<mx, my, idx, idy, edx, edy, ex, ey, med, pre, vecVars, optVars, callVars>>

NextEff == ComputeEd \/ SupplyEd \/ TotalEffectsAlg \/ ComputeMediationEffects \/ ComputeFd

SpecEff == InitEff /\ [][NextEff]_vars

-----------------------------------------------------------------------------
(* Mediation standard deviations: compute_mediation_std, called on the     *)
(* mediation matrices that compute_mediation_effects returned.             *)

\* The result of a division by zero (inf or nan).
NonFinite == <<0, 0>>
IsFinite(p) == p[2] # 0
RDiv(p, q) ==
    IF ~IsFinite(p) \/ ~IsFinite(q) \/ q[1] = 0 THEN NonFinite
    ELSE Frac(p[1] * q[2], p[2] * q[1])
RTimes(p, q) == IF ~IsFinite(p) \/ ~IsFinite(q) THEN NonFinite ELSE RMul(p, q)

\* np.sum(mat, axis=0): a new vector of the column sums.
ColSum(mat) ==
    [j \in 1..Len(mat[1]) |-> RSum([i \in 1..Len(mat) |-> mat[i][j]], Len(mat))]

\* mat[mat==0] = 1; return mat
zeros_to_ones(mat) == [j \in 1..Len(mat) |-> IF mat[j][1] = 0 THEN R(1) ELSE mat[j]]

\* tile(vec, (n, 1)): n rows, each of them vec.
tile(vec, n) == [i \in 1..n |-> vec]

\* Returns [exj_hat_std, eyj_hat_std, eyx_hat_std, eyy_hat_std], and eyx, eyy as
\* the call leaves them: zeros_to_ones writes into the vectors of column sums,
\* which are new arrays, and nothing writes into eyx, eyy.
compute_mediation_std(ex_hat_std, ey_hat_std, eyx, eyy, yvars_, final_var_) ==
    LET n == Len(ex_hat_std)
        jvar == IndexOf(yvars_, final_var_)
        exj_hat_std == ex_hat_std[jvar]
        eyj_hat_std == ey_hat_std[jvar]
        exj_hat_std_mat == tile(exj_hat_std, n)
        eyj_hat_std_mat == tile(eyj_hat_std, n)
        x_colsum == zeros_to_ones(ColSum(eyx))
        y_colsum == zeros_to_ones(ColSum(eyy))
        eyx_colnorm == [i \in 1..Len(eyx) |-> [j \in 1..Len(eyx[i]) |-> RDiv(eyx[i][j], x_colsum[j])]]
        eyy_colnorm == [i \in 1..Len(eyy) |-> [j \in 1..Len(eyy[i]) |-> RDiv(eyy[i][j], y_colsum[j])]]
    IN  [exj_hat_std |-> exj_hat_std,
         eyj_hat_std |-> eyj_hat_std,
         eyx_hat_std |-> [i \in 1..Len(eyx) |-> [j \in 1..Len(eyx[i]) |->
                            RTimes(exj_hat_std_mat[i][j], eyx_colnorm[i][j])]],
         eyy_hat_std |-> [i \in 1..Len(eyy) |-> [j \in 1..Len(eyy[i]) |->
                            RTimes(eyj_hat_std_mat[i][j], eyy_colnorm[i][j])]],
         eyx |-> eyx,
         eyy |-> eyy]

\* Standard deviations of the total effects: every entry has the same value.
StdVals == {1, 2}
StdMat(r, c, v) == [i \in 1..r |-> [j \in 1..c |-> R(v)]]

ComputeMediationStd ==
    /\ pc = "med"
    /\ \E v \in StdVals :
          LET r == compute_mediation_std(StdMat(ndim, mdim, v), StdMat(ndim, ndim, v),
                                         med.eyx, med.eyy, yvars, final_var)
          IN  /\ ret' = [exj_hat_std |-> r.exj_hat_std, eyj_hat_std |-> r.eyj_hat_std,
                         eyx_hat_std |-> r.eyx_hat_std, eyy_hat_std |-> r.eyy_hat_std]
              /\ arg' = [eyx |-> r.eyx, eyy |-> r.eyy]
    /\ pre' = [from |-> pc, eyx |-> med.eyx, eyy |-> med.eyy]
    /\ pc' = "med_std"
    /\ UNCHANGED <<mx, my, idx, idy, edx, edy, ex, ey, err, med, fd, final_var,
                   vecVars, optVars>>

NextStd == TotalEffectsAlg \/ ComputeMediationEffects \/ ComputeMediationStd

SpecStd == InitEff /\ [][NextStd]_vars

-----------------------------------------------------------------------------
(* vecmat, called on a matrix mz.                                          *)

\* The positions visited by the loops for col: for row: if mz[row, col] != 0.
NonzeroLoop(mz) ==
    SelectSeq(ColumnMajor(Rows(mz), Cols(mz)), LAMBDA p : mz[p[1]][p[2]] # 0)

\* mi = zeros((ndim, mdim)); mi[row, col] = v
SingleEntry(r, c, p, v) == [i \in 1..r |-> [j \in 1..c |-> IF <<i, j>> = p THEN v ELSE 0]]

\* reshape(mi, ndim * mdim, order='F')
reshape_F(mi) == Gather(mi, ColumnMajor(Rows(mi), Cols(mi)))

\* reshape(mi, ndim * mdim, order='C')
reshape_C(mi) == Gather(mi, RowMajor(Rows(mi), Cols(mi)))

vecmat_orderC(mz) ==
    LET pos == NonzeroLoop(mz)
        column(k) == reshape_C(SingleEntry(Rows(mz), Cols(mz), pos[k], mz[pos[k][1]][pos[k][2]]))
    IN  [p \in 1..(Rows(mz) * Cols(mz)) |-> [k \in 1..Len(pos) |-> column(k)[p]]]

vecmat_rowloop(mz) ==
    LET pos == SelectSeq(RowMajor(Rows(mz), Cols(mz)), LAMBDA p : mz[p[1]][p[2]] # 0)
        column(k) == reshape_F(SingleEntry(Rows(mz), Cols(mz), pos[k], mz[pos[k][1]][pos[k][2]]))
    IN  [p \in 1..(Rows(mz) * Cols(mz)) |-> [k \in 1..Len(pos) |-> column(k)[p]]]

\* vec_mat as a tuple of its ndim * mdim rows, each with qdim entries.
vecmat(mz) ==
    LET pos == NonzeroLoop(mz)
        column(k) == reshape_F(SingleEntry(Rows(mz), Cols(mz), pos[k], mz[pos[k][1]][pos[k][2]]))
    IN  [p \in 1..(Rows(mz) * Cols(mz)) |-> [k \in 1..Len(pos) |-> column(k)[p]]]

\* Entries of the matrices vecmat is tried on.
MzVals == {0, 1, 2}
MzSamples ==
    [1..ndim -> [1..mdim -> MzVals]] \cup [1..mdim -> [1..ndim -> MzVals]]

InitMat ==
    /\ pc = "mat"
    /\ \E M \in MzSamples : arg = [mz |-> M]
    /\ ret = None
    /\ mx = None /\ my = None /\ idx = None /\ idy = None
    /\ Idle

Vecmat ==
    /\ pc = "mat"
    /\ ret' = vecmat(arg.mz)
    /\ pc' = "mat_done"
    /\ UNCHANGED <<mx, my, idx, idy, arg, vecVars, effVars, optVars>>

NextMat == Vecmat

SpecMat == InitMat /\ [][NextMat]_vars

-----------------------------------------------------------------------------
(* simulate, from the simulated ymdat on: an observation is R(1), or       *)
(* NonFinite where the simulation of the model failed (nan).               *)

ymvars == <<"y1", "y3">>
pdim == Len(ymvars)

\* At most MaxTau observations are requested.
MaxTau == 3

isnan(p) == ~IsFinite(p)

\* colind = ~np.any(isnan(ymdat), axis=0)
colind(ymdat) == [j \in 1..Cols(ymdat) |-> ~(\E i \in 1..Rows(ymdat) : isnan(ymdat[i][j]))]

\* ymdat[:, colind]
SelectColumns(ymdat, ind) ==
    LET keep == SelectSeq([j \in 1..Cols(ymdat) |-> j], LAMBDA j : ind[j])
    IN  [i \in 1..Rows(ymdat) |-> [k \in 1..Len(keep) |-> ymdat[i][keep[k]]]]

CountTrue(ind) == Cardinality({j \in 1..Len(ind) : ind[j]})

\* Lines 138-152 of simulate: [err, ymdat], or [err, requested, actual] of the
\* ValueError raised.
simulate(tau, ymdat) ==
    LET ind == colind(ymdat)
        kept == IF CountTrue(ind) > 0 THEN SelectColumns(ymdat, ind) ELSE ymdat
        tau_new == Cols(kept)
    IN  IF tau_new < tau
            THEN [err |-> "ValueError", requested |-> tau, actual |-> tau_new]
            ELSE [err |-> "none", ymdat |-> kept]

InitSim ==
    /\ pc = "sim"
    /\ \E tau \in 1..MaxTau :
          \E Y \in [1..pdim -> [1..tau -> {R(1), NonFinite}]] :
             arg = [tau |-> tau, ymdat |-> Y]
    /\ ret = None
    /\ mx = None /\ my = None /\ idx = None /\ idy = None
    /\ Idle

Simulate ==
    /\ pc = "sim"
    /\ LET r == simulate(arg.tau, arg.ymdat)
       IN  IF r.err # "none"
               THEN /\ err' = r.err
                    /\ ret' = [requested |-> r.requested, actual |-> r.actual]
                    /\ pc' = "sim_raised"
               ELSE /\ ret' = [ymdat |-> r.ymdat]
                    /\ pc' = "sim_done"
                    /\ UNCHANGED err
    /\ UNCHANGED <<mx, my, idx, idy, arg, vecVars, optVars,
                   edx, edy, ex, ey, med, fd, final_var, pre>>

NextSim == Simulate

SpecSim == InitSim /\ [][NextSim]_vars

-----------------------------------------------------------------------------
(* create_model, called on the configuration record model_dat: its keys,   *)
(* the value under "tau", and the shapes of the data it holds.             *)

\* The keys of the configuration that create_model reads.
ConfigKeys == {"xvars", "yvars", "ymvars", "final_var", "define_equations",
               "xdat", "ymdat", "show_nr_indiv", "tau"}

\* adjacency_dat, setup_dat and the keys update_model assigns.
AdjacencyKeys == {"model", "mx_alg", "my_alg", "mx_lam", "my_lam", "idx", "idy"}
SetupKeys == {"direct_theo", "selmat", "selvec", "selwei", "ymean", "xmedian", "ymedian",
              "ydet", "tau", "xcdat", "ymcdat", "yhat", "xmean",
              "mx_theo", "my_theo", "ex_theo", "ey_theo",
              "exj_theo", "eyx_theo", "eyj_theo", "eyy_theo",
              "mx_theos", "my_theos", "ex_theos", "ey_theos",
              "exj_theos", "eyx_theos", "eyj_theos", "eyy_theos"}
UpdateKeys == {"ndim", "mdim", "pdim", "qxdim", "qydim", "qdim", "edx", "edy",
               "fdx", "fdy", "fy", "fx", "fm", "fym"}

\* ymdat has at most MaxRows rows.
MaxRows == 3

\* list(model_dat["yvars"]).index(el) raises a ValueError for a name that is not
\* a yvar.
IndexRaises(yvars_, ymvars_) ==
    \E k \in 1..Len(ymvars_) : ~(\E i \in 1..Len(yvars_) : yvars_[i] = ymvars_[k])

create_model_checklate(model_dat, effects) ==
    IF IndexRaises(model_dat.yvars, model_dat.ymvars)
        THEN [err |-> "ValueError", model_dat |-> model_dat]
    ELSE LET adj == [model_dat EXCEPT !.keys = @ \cup AdjacencyKeys]
         IN  IF model_dat.ymdat_rows # Len(model_dat.ymvars)
                 THEN [err |-> "ValueError", model_dat |-> adj]
             ELSE IF effects # "none"
                 THEN [err |-> effects, model_dat |-> adj]
             ELSE [err |-> "none",
                   model_dat |-> [adj EXCEPT !.keys = @ \cup SetupKeys \cup UpdateKeys,
                                             !.tau = model_dat.xdat_cols]]

\* [err, model_dat]: the exception raised ("none": returned) and model_dat as the
\* call leaves it.  effects is the exception that the computation of the effects
\* of the model's equations raises, if it is reached ("none": it raises nothing).
create_model(model_dat, effects) ==
    IF IndexRaises(model_dat.yvars, model_dat.ymvars)
        THEN [err |-> "ValueError", model_dat |-> model_dat]
    ELSE IF model_dat.ymdat_rows # Len(model_dat.ymvars)
        THEN [err |-> "ValueError", model_dat |-> model_dat]
    ELSE LET adj == [model_dat EXCEPT !.keys = @ \cup AdjacencyKeys]
         IN  IF effects # "none"
                 THEN [err |-> effects, model_dat |-> adj]
                 ELSE [err |-> "none",
                       model_dat |-> [adj EXCEPT !.keys = @ \cup SetupKeys \cup UpdateKeys,
                                                 !.tau = model_dat.xdat_cols]]

\* Declared manifest variables: one or two different names, yvars or the name
\* "u" that is no yvar.
YmvarsChoices ==
    LET names == {yvars[k] : k \in 1..ndim} \cup {"u"}
    IN  {<<a>> : a \in names} \cup {<<p[1], p[2]>> : p \in {q \in names \X names : q[1] # q[2]}}

InitCreate ==
    /\ pc = "create"
    /\ \E ymv \in YmvarsChoices : \E rows \in 0..MaxRows : \E tau \in 1..MaxTau :
       \E cols \in 1..MaxTau :
          arg = [keys |-> ConfigKeys, yvars |-> yvars, ymvars |-> ymv,
                 ymdat_rows |-> rows, xdat_cols |-> cols, tau |-> tau]
    /\ ret = None
    /\ mx = None /\ my = None /\ idx = None /\ idy = None
    /\ Idle

CreateModel ==
    /\ pc = "create"
    /\ \E effects \in {"none", "ValueError", "LinAlgError"} :
          LET r == create_model(arg, effects)
          IN  /\ arg' = r.model_dat
              /\ IF r.err # "none"
                     THEN err' = r.err /\ pc' = "create_raised" /\ UNCHANGED ret
                     ELSE ret' = r.model_dat /\ pc' = "created" /\ UNCHANGED err
    /\ pre' = arg
    /\ UNCHANGED <<mx, my, idx, idy, vecVars, optVars,
                   edx, edy, ex, ey, med, fd, final_var>>

NextCreate == CreateModel

SpecCreate == InitCreate /\ [][NextCreate]_vars

-----------------------------------------------------------------------------
(* Estimation: estimate_snn, optimize_ssn and StructuralNN.forward.        *)
(*                                                                         *)
(* The objective sse and the gradient that reaches the masked parameters   *)
(* depend on the observed data; the model draws them from the sets in      *)
(* data.  Parameters are counted in steps of the optimizer.                *)

\* rel = 0.00001, as its inverse 1 / rel.
RelInv == 100000
epochs_min == 90
nr_conv_min == 5

\* The loop is followed for at most MaxEpoch iterations.
MaxEpoch == 96
\* At most MaxFree parameters are identified (free) when gradients flow.
MaxFree == 2
\* A parameter stays within -MaxParam .. MaxParam.
MaxParam == 1

\* Values of the objective: 0, and two values whose relative distance is below rel.
SseVals == {0, 200001, 200002}
GradVals == {-1, 0, 1}

Sgn(a) == IF a > 0 THEN 1 ELSE IF a < 0 THEN -1 ELSE 0
Clip(a) == IF a > MaxParam THEN MaxParam ELSE IF a < -MaxParam THEN -MaxParam ELSE a

MaskedGrad_nomask(upstream, id) == upstream

\* Backward pass of mx * self.idx: the gradient with respect to mx of a function
\* of mx * idx whose gradient with respect to mx * idx is upstream.
MaskedGrad(upstream, id) == Hadamard(upstream, id)

\* Gradient of direct.T @ direct, direct = directvec(mx, my, idx, idy), with
\* respect to the parameter matrix par: only the entries where id is 1 are in direct.
TikhonovGrad(par, id) ==
    [i \in 1..Len(par) |-> [j \in 1..Len(par[i]) |->
        IF id[i][j] = 1 THEN 2 * par[i][j] ELSE 0]]

\* sse.backward(): gradient of the objective of sse_orig with respect to par.
Backward(par, id, upstream, alpha) ==
    LET data_grad == MaskedGrad(upstream, id)
        tikh_grad == TikhonovGrad(par, id)
    IN  [i \in 1..Len(par) |-> [j \in 1..Len(par[i]) |->
            data_grad[i][j] + alpha * tikh_grad[i][j]]]

\* torch.optim.Adam, first moment exp_avg = beta1 * exp_avg + (1 - beta1) * grad,
\* by its sign: a zero gradient keeps the sign, and a gradient against the moment
\* turns it (flip) or not, depending on the sizes.
AdamMoment(m, grad, flip) ==
    [i \in 1..Len(m) |-> [j \in 1..Len(m[i]) |->
        IF grad[i][j] = 0 THEN m[i][j]
        ELSE IF m[i][j] = 0 \/ m[i][j] = Sgn(grad[i][j]) \/ flip THEN Sgn(grad[i][j])
        ELSE m[i][j]]]

\* optimizer.step(): every parameter moves one step against its first moment, and
\* a parameter whose moment is zero does not move.
AdamStep(par, m) ==
    [i \in 1..Len(par) |-> [j \in 1..Len(par[i]) |-> Clip(par[i][j] - m[i][j])]]

LoopCondition_capped(epoch_, nr_conv_) ==
    /\ epoch_ < epochs_min \/ nr_conv_ < nr_conv_min
    /\ epoch_ < epochs_min + nr_conv_min

LoopCondition_and(epoch_, nr_conv_) == epoch_ < epochs_min /\ nr_conv_ < nr_conv_min

\* while epoch < epochs_min or nr_conv < nr_conv_min
LoopCondition(epoch_, nr_conv_) == epoch_ < epochs_min \/ nr_conv_ < nr_conv_min

Converged_le(sse_, sse_old_) ==
    IF sse_old_ >= 0 THEN Abs(sse_ - sse_old_) <= sse_old_ \div RelInv
    ELSE TRUE

\* abs(sse - sse_old) / sse_old < rel; a division by zero gives inf or nan, and
\* the comparison is False.  For integers d, s > 0: d / s < 1 / RelInv is
\* d * RelInv < s, which is d <= (s - 1) \div RelInv.
Converged(sse_, sse_old_) ==
    IF sse_old_ = 0 THEN FALSE
    ELSE IF sse_old_ > 0 THEN Abs(sse_ - sse_old_) <= (sse_old_ - 1) \div RelInv
    ELSE TRUE

\* Identification matrices with at most MaxFree ones, none on the diagonal of idy.
\* The places that may be identified (free), in the order in which a larger
\* MaxFree adds them: none of them on the diagonal of idy.
FreeCandidates == << <<"y", <<2, 1>>>>, <<"x", <<1, 1>>>>, <<"y", <<3, 2>>>>, <<"x", <<2, 2>>>> >>
FreeSets == SUBSET {FreeCandidates[k] : k \in 1..MaxFree}

\* An identification matrix idy with the cycles y1 -> y2 -> y1 and y1 -> y3 -> y1,
\* and theoretical direct effects on its support.
CyclicIdy == <<<<0, 1, 1>>, <<1, 0, 0>>, <<1, 0, 0>>>>
CyclicMy == <<<<0, 1, 1>>, <<-1, 0, 0>>, <<1, 0, 0>>>>

InitOpt ==
    /\ pc = "loop"
    /\ \/ \E T \in FreeSets :
             /\ idx = Place("x", ndim, mdim, T, [p \in T |-> 1], 0)
             /\ idy = Place("y", ndim, ndim, T, [p \in T |-> 1], 0)
             /\ data \in [sse : {{200001}}, grad : {GradVals}, alpha : {0, 1}]
             \* start at the theoretical direct effects, which lie within the support
             /\ mx = idx
             /\ my = idy
       \/ /\ idx = <<<<1, 0>>, <<0, 1>>, <<0, 0>>>>
          /\ idy = <<<<0, 0, 0>>, <<1, 0, 0>>, <<0, 0, 0>>>>
          /\ data = [sse |-> SseVals, grad |-> {0}, alpha |-> 0]
          /\ mx = idx
          /\ my = idy
       \/ /\ idx = zeros(ndim, mdim)
          /\ idy = CyclicIdy
          /\ data = [sse |-> {200001}, grad |-> GradVals, alpha |-> 0]
          /\ mx = idx
          /\ my = CyclicMy
          \* create_model has computed the effects of this model without an error
          /\ compute_ed(idx, idy).err = "none"
          /\ total_effects_alg(mx, my, compute_ed(idx, idy).edx,
                               compute_ed(idx, idy).edy).err = "none"
    /\ adam = [mx |-> zeros(ndim, mdim), my |-> zeros(ndim, ndim)]
    /\ epoch = 0 /\ nr_conv = 0 /\ sse = 0 /\ sse_old = 1
    /\ last_nonconv = 0
    /\ direct = None /\ direct_ad = None /\ back = None
    /\ edx = None /\ edy = None /\ ex = None /\ ey = None
    /\ err = "none" /\ med = None /\ fd = None
    /\ final_var = yvars[1] /\ pre = None
    /\ arg = None /\ ret = None

\* (self.eye - my).inverse() in forward, my masked by idy: torch raises a
\* RuntimeError for a singular matrix.
forward_singular(my_, idy_) == Det(Structural(Hadamard(my_, idy_))) = 0

ForwardParams_afterstep(before, after) == after

\* The parameters that ad_model(*params) and sse_orig see: the forward pass and the
\* objective come before optimizer.step() in the iteration.
ForwardParams(before, after) == before

\* One iteration of the loop of optimize_ssn.
OptimizeStep ==
    /\ pc = "loop"
    /\ LoopCondition(epoch, nr_conv)
    /\ epoch < MaxEpoch
    /\ sse_old' = sse
    /\ IF forward_singular(my, idy)
           THEN /\ pc' = "forward_raised"
                /\ err' = "RuntimeError"
                /\ pre' = [mx |-> mx, my |-> my]
                /\ UNCHANGED <<mx, my, adam, sse, nr_conv, last_nonconv, epoch>>
           ELSE /\ sse' \in data.sse
                /\ \E u \in data.grad :
                      LET gx == Backward(mx, idx, [i \in 1..ndim |-> [j \in 1..mdim |-> u]], data.alpha)
                          gy == Backward(my, idy, [i \in 1..ndim |-> [j \in 1..ndim |-> u]], data.alpha)
                      IN  \E flip \in BOOLEAN :
                      LET m == [mx |-> AdamMoment(adam.mx, gx, flip), my |-> AdamMoment(adam.my, gy, flip)]
                          stepped == [mx |-> AdamStep(mx, m.mx), my |-> AdamStep(my, m.my)]
                      IN  /\ adam' = m
                          /\ mx' = stepped.mx
                          /\ my' = stepped.my
                          /\ pre' = ForwardParams([mx |-> mx, my |-> my], stepped)
                /\ IF Converged(sse', sse_old')
                       THEN nr_conv' = nr_conv + 1 /\ last_nonconv' = last_nonconv
                       ELSE nr_conv' = 0 /\ last_nonconv' = epoch + 1
                /\ epoch' = epoch + 1
                /\ UNCHANGED <<pc, err>>
    /\ UNCHANGED <<idx, idy, data, vecVars, callVars,
                   edx, edy, ex, ey, med, fd, final_var>>

\* The loop ends, optimize_ssn returns, and estimate_snn asserts the
\* identification restrictions and returns mx, my, sse.
EstimateReturn ==
    /\ pc = "loop"
    /\ ~LoopCondition(epoch, nr_conv)
    /\ IF mx = Hadamard(mx, idx) /\ my = Hadamard(my, idy)
           THEN pc' = "returned" /\ UNCHANGED err
           ELSE pc' = "raised" /\ err' = "AssertionError"
    /\ UNCHANGED <<mx, my, idx, idy, vecVars, optVars, callVars,
                   edx, edy, ex, ey, med, fd, final_var, pre>>

NextOpt == OptimizeStep \/ EstimateReturn

SpecOpt == InitOpt /\ [][NextOpt]_vars

-----------------------------------------------------------------------------
(* All operations.                                                         *)

Init == InitVec \/ InitEff \/ InitMat \/ InitSim \/ InitCreate \/ InitOpt
Next == NextVec \/ NextEff \/ NextStd \/ NextMat \/ NextSim \/ NextCreate \/ NextOpt
Spec == Init /\ [][Next]_vars

-----------------------------------------------------------------------------
(* Claims about the vectorization, checked under SpecVec.                  *)

\* C1: directmat(directvec_alg(mx, my, idx, idy), idx, idy) returns mx masked by
\* idx and my masked by idy: the entries of mx, my where the mask is 1 and 0
\* everywhere else, for every binary idx and zero-diagonal binary idy.
C1_RoundTrip ==
    pc = "vec_mat" =>
        /\ back.mx = Hadamard(mx, idx)
        /\ back.my = Hadamard(my, idy)

\* A round trip in which both masks select several entries, out of order between
\* rows and columns, and cut a nonzero entry of mx and of my away.
C1_Witness ==
    /\ pc = "vec_mat"
    /\ idy[1][2] = 1 /\ idy[2][1] = 1 /\ idy[3][1] = 1
    /\ idx[1][2] = 1 /\ idx[2][1] = 1
    /\ \E p \in PosX : idx[p[1]][p[2]] = 0 /\ mx[p[1]][p[2]] # 0
    /\ \E p \in PosY : idy[p[1]][p[2]] = 0 /\ my[p[1]][p[2]] # 0
    /\ back.mx[1][2] = mx[1][2] /\ back.my[2][1] = my[2][1]

\* C2: the estimation path directvec and the algebraic path directvec_alg return
\* the same vector: the same entries in the same order.
C2_SameVector ==
    pc \in {"vec_ad", "vec_mat"} => direct_ad = direct

-----------------------------------------------------------------------------
(* Claims about the effects algebra, checked under SpecEff.                *)

HasDiag(M) == \E i \in 1..Len(M) : M[i][i] # 0

\* total_effects_alg has been called with the current mx, my, edx, edy.
CalledTotal == pc \in {"te_none", "te_ed", "te_given", "te_raised", "med"}
ReturnedTotal == pc \in {"te_none", "te_ed", "te_given", "med"}

RECURSIVE ReachIn(_, _)
\* ReachIn(id, k)[i][j]: y_i is reached from y_j along at most k edges of id, where
\* id[i][l] = 1 is the edge from y_l to y_i.
ReachIn(id, k) ==
    IF k = 0 THEN [i \in 1..Len(id) |-> [j \in 1..Len(id) |-> i = j]]
    ELSE LET r == ReachIn(id, k - 1)
         IN  [i \in 1..Len(id) |-> [j \in 1..Len(id) |->
                 r[i][j] \/ \E l \in 1..Len(id) : id[i][l] # 0 /\ r[l][j]]]
Reach(id) == ReachIn(id, Len(id))

\* No variable is reached from itself along one or more edges.
Acyclic(id) ==
    LET r == Reach(id)
    IN  \A i, l \in 1..Len(id) : id[i][l] # 0 => ~r[l][i]

IsBinary(M) == \A i \in 1..Len(M) : \A j \in 1..Len(M[i]) : M[i][j] \in {0, 1}

\* C3: total_effects_alg raises the normalization ValueError and returns nothing
\* whenever a diagonal entry of my is nonzero, whatever mx is and whatever edx, edy
\* are (None included); so compute_ed raises it whenever idy has a nonzero
\* diagonal entry.
C3_NormalizationError ==
    /\ (CalledTotal /\ HasDiag(my)) =>
           (pc = "te_raised" /\ err = "ValueError" /\ ex = None /\ ey = None)
    /\ (pc \in {"ed", "ed_raised"} /\ HasDiag(idy)) =>
           (pc = "ed_raised" /\ err = "ValueError" /\ edx = None /\ edy = None)

\* total_effects_alg raised for a negative diagonal entry, with identification
\* matrices supplied and mx nonzero.
C3_Witness ==
    /\ pc = "te_raised" /\ err = "ValueError"
    /\ pre.from = "given" /\ edx # None
    /\ \E i \in 1..ndim : my[i][i] < 0
    /\ count_nonzero(mx) > 0

\* The three parts of claim C4 for the returned ex, ey.
InverseHolds ==
    /\ RMatMul(ey, RatMat(Structural(my))) = RatMat(eye(ndim))
    /\ \A i \in 1..ndim : ey[i][i] = R(1)
    /\ ex = RMatMul(ey, RatMat(mx))

\* C4 as stated: for every zero-diagonal my with invertible I - my, cyclic or not,
\* and edx, edy = compute_ed of the supports of mx, my, the returned ey satisfies
\* ey @ (I - my) = I, has unit diagonal, and ex = ey @ mx.
C4_Inverse_AnyGraph ==
    pc = "te_ed" => InverseHolds

\* C4, amended: the same for every acyclic my.
C4_Inverse_Acyclic ==
    (pc = "te_ed" /\ Acyclic(my)) => InverseHolds

\* An acyclic my with a mediated effect in which two paths cancel: the total
\* effect is 0 where edy is 1.
C4_Witness ==
    /\ pc = "te_ed" /\ Acyclic(my)
    /\ count_nonzero(my) >= 3 /\ count_nonzero(mx) >= 1
    /\ \E i, j \in 1..ndim : i # j /\ edy[i][j] = 1 /\ ey[i][j] = R(0)
    /\ \E i, j \in 1..ndim : i # j /\ ey[i][j] = R(-1)

\* The values total_effects_alg computes before the cleanup.
RawEy == inv(Structural(my))
RawEx == RMatMul(RawEy, RatMat(mx))

\* C5, the part that holds everywhere: unit diagonal of ey, zeros off the
\* diagonal where edy is 0, zeros of ex where edx is 0, and ex kept where edx is 1.
CleanupZeros ==
    /\ \A i \in 1..ndim : ey[i][i] = R(1)
    /\ \A i, j \in 1..ndim : (i # j /\ edy[i][j] = 0) => ey[i][j] = R(0)
    /\ \A p \in PosX : edx[p[1]][p[2]] = 0 => ex[p[1]][p[2]] = R(0)
    /\ LET raw == RawEx
       IN  \A p \in PosX : edx[p[1]][p[2]] = 1 => ex[p[1]][p[2]] = raw[p[1]][p[2]]

\* C5 as stated: whenever total_effects_alg returns with edx, edy supplied, the
\* diagonal of ey is 1, masked entries are 0, and the entries at every position
\* where the mask is 1 keep the value computed from inv(I - my) and ey @ mx.
C5_Cleanup_AllKept ==
    pc \in {"te_ed", "te_given"} =>
        /\ CleanupZeros
        /\ LET raw == RawEy
           IN  \A i, j \in 1..ndim : edy[i][j] = 1 => ey[i][j] = raw[i][j]

\* C5, amended: the entries of ey that keep the computed value are those off the
\* diagonal where edy is 1; the diagonal is 1 whatever inv(I - my) has there.
C5_Cleanup_OffDiagonalKept ==
    pc \in {"te_ed", "te_given"} =>
        /\ CleanupZeros
        /\ LET raw == RawEy
           IN  \A i, j \in 1..ndim : (i # j /\ edy[i][j] = 1) => ey[i][j] = raw[i][j]

\* Supplied matrices with a zero where the inverse is not zero, for a my with
\* feedback, whose inverse has no unit diagonal.
C5_Witness ==
    /\ pc = "te_given"
    /\ \E i \in 1..ndim : RawEy[i][i] # R(1)
    /\ \/ \E i, j \in 1..ndim : i # j /\ edy[i][j] = 0 /\ RawEy[i][j] # R(0)
       \/ \E i \in 1..ndim : edy[i][i] = 0
       \/ \E p \in PosX : edx[p[1]][p[2]] = 0 /\ RawEx[p[1]][p[2]] # R(0)
    /\ \E i, j \in 1..ndim : i # j /\ edy[i][j] = 1 /\ ey[i][j] \notin {R(0), R(1)}

\* The end-to-end scenario y1 = a*x1, y2 = b*y1 + c*x2, with y3 = 0 added.
ScenarioIdx == <<<<1, 0>>, <<0, 1>>, <<0, 0>>>>
ScenarioIdy == <<<<0, 0, 0>>, <<1, 0, 0>>, <<0, 0, 0>>>>
ScenarioEdy == <<<<1, 0, 0>>, <<1, 1, 0>>, <<0, 0, 1>>>>

\* C6: for binary idx and acyclic zero-diagonal binary idy, compute_ed returns
\* binary edx, edy with edy[i][j] = 1 exactly when y_i is reached from y_j in zero
\* or more steps, and edx[i][j] = 1 exactly when some k has edy[i][k] = 1 and
\* idx[k][j] = 1; in the end-to-end scenario edy = [[1,0],[1,1]] and
\* ex[1,0] = b*a (ex[2][1] counted from 1).
C6_ComputeEd ==
    /\ (pc \in {"ed", "ed_raised"} /\ ZeroDiag(idy) /\ Acyclic(idy)) =>
        /\ pc = "ed"
        /\ IsBinary(edx) /\ IsBinary(edy)
        /\ LET r == Reach(idy)
           IN  \A i, j \in 1..ndim : edy[i][j] = 1 <=> r[i][j]
        /\ \A p \in PosX : edx[p[1]][p[2]] = 1 <=>
               \E k \in 1..ndim : edy[p[1]][k] = 1 /\ idx[k][p[2]] = 1
    /\ (pc \in {"ed", "te_ed"} /\ idx = ScenarioIdx /\ idy = ScenarioIdy) =>
        /\ edy = ScenarioEdy
        /\ pc = "te_ed" => ex[2][1] = R(my[2][1] * mx[1][1])

\* compute_ed returned for a chain y1 -> y2 -> y3 with the direct edge y1 -> y3:
\* two paths lead from y1 to y3.
C6_Witness ==
    /\ pc = "ed"
    /\ idy[2][1] = 1 /\ idy[3][2] = 1 /\ idy[3][1] = 1
    /\ count_nonzero(idx) = 1 /\ idx[1][1] = 1
    /\ edy[3][1] = 1 /\ edx[3][1] = 1 /\ edx[1][2] = 0

JVar == IndexOf(yvars, final_var)

\* C7: compute_mediation_effects returns row jvar of ex and of ey, and
\* eyx[i][j] = eyj[i] * mx[i][j], eyy[i][j] = eyj[i] * my[i][j] for all i, j, and
\* leaves mx, my, ex, ey as they were.
C7_Mediation ==
    pc = "med" =>
        /\ med.exj = ex[JVar]
        /\ med.eyj = ey[JVar]
        /\ \A p \in PosX : med.eyx[p[1]][p[2]] = RMul(ey[JVar][p[1]], R(mx[p[1]][p[2]]))
        /\ \A p \in PosY : med.eyy[p[1]][p[2]] = RMul(ey[JVar][p[1]], R(my[p[1]][p[2]]))
        /\ pre.mx = mx /\ pre.my = my /\ pre.ex = ex /\ pre.ey = ey

\* Mediation for the final variable y3, which two other variables affect with
\* different total effects, with nonzero entries in eyx and eyy.
C7_Witness ==
    /\ pc = "med" /\ final_var = "y3"
    /\ med.eyj[1] # R(0) /\ med.eyj[2] # R(0) /\ med.eyj[1] # med.eyj[2]
    /\ \E p \in PosX : p[1] # 3 /\ med.eyx[p[1]][p[2]] # R(0)
    /\ \E p \in PosY : p[1] # 3 /\ med.eyy[p[1]][p[2]] # R(0)

\* The parts of claim C10 that do not depend on which matrices are the direct
\* effects: the final variable's rows, and binary results.
FdRows(ed) ==
    /\ fd.fdxj = [j \in 1..mdim |-> IF ed.edx[JVar][j] # 0 THEN 1 ELSE 0]
    /\ fd.fdyj = [j \in 1..ndim |-> IF ed.edy[JVar][j] # 0 THEN 1 ELSE 0]
    /\ IsBinary(fd.fdx) /\ IsBinary(fd.fdy)
    /\ \A j \in 1..mdim : fd.fdxj[j] \in {0, 1}
    /\ \A j \in 1..ndim : fd.fdyj[j] \in {0, 1}

\* C10 as stated: compute_fd binarizes the mediation effects computed with edx,
\* edy = compute_ed(idx, idy) as the direct effects: fdx[i][j] = 1 exactly when
\* edy[jvar][i] # 0 and edx[i][j] # 0, fdy likewise with edy[i][j].
C10_Fd_EdAsDirect ==
    pc = "fd" =>
        LET ed == compute_ed(idx, idy)
        IN  /\ FdRows(ed)
            /\ \A p \in PosX : fd.fdx[p[1]][p[2]] = 1 <=>
                   (ed.edy[JVar][p[1]] # 0 /\ ed.edx[p[1]][p[2]] # 0)
            /\ \A p \in PosY : fd.fdy[p[1]][p[2]] = 1 <=>
                   (ed.edy[JVar][p[1]] # 0 /\ ed.edy[p[1]][p[2]] # 0)

\* C10, amended: the direct effects of the mediation computation are idx, idy,
\* and edx, edy are its total effects: fdx[i][j] = 1 exactly when
\* edy[jvar][i] # 0 and idx[i][j] # 0, fdy likewise with idy[i][j].
C10_Fd_IdAsDirect ==
    pc = "fd" =>
        LET ed == compute_ed(idx, idy)
        IN  /\ FdRows(ed)
            /\ \A p \in PosX : fd.fdx[p[1]][p[2]] = 1 <=>
                   (ed.edy[JVar][p[1]] # 0 /\ idx[p[1]][p[2]] # 0)
            /\ \A p \in PosY : fd.fdy[p[1]][p[2]] = 1 <=>
                   (ed.edy[JVar][p[1]] # 0 /\ idy[p[1]][p[2]] # 0)

\* compute_fd returned for a final variable that x1 affects only through another
\* variable: edx is 1 and idx is 0 in the final variable's row.
C10_Witness ==
    /\ pc = "fd"
    /\ LET ed == compute_ed(idx, idy)
       IN  \E j \in 1..mdim : ed.edx[JVar][j] = 1 /\ idx[JVar][j] = 0 /\ fd.fdxj[j] = 1
    /\ \E p \in PosX : fd.fdx[p[1]][p[2]] = 1
    /\ \E p \in PosY : fd.fdy[p[1]][p[2]] = 1

-----------------------------------------------------------------------------
(* Claims about the estimation, checked under SpecOpt.                     *)

InSupport == mx = Hadamard(mx, idx) /\ my = Hadamard(my, idy)

\* C8: in every iteration of the estimation loop, mx and my, which start at zero
\* outside the support of idx, idy, have no nonzero entry outside it: an optimizer
\* step leaves the entries where idx, idy are 0 as they are, and the final
\* assertions of estimate_snn hold.
C8_NoLeakage ==
    pc \in {"loop", "returned", "raised"} =>
        /\ InSupport
        /\ pc # "raised" /\ err # "AssertionError"

\* estimate_snn returned after the free parameter has moved under gradients that
\* also reached the masked positions.
C8_Witness ==
    /\ pc = "returned"
    /\ count_nonzero(idx) + count_nonzero(idy) >= 1
    /\ \E p \in PosY : idy[p[1]][p[2]] = 1 /\ adam.my[p[1]][p[2]] # 0 /\ my[p[1]][p[2]] # 1
    /\ \E p \in PosX : idx[p[1]][p[2]] = 0

\* C9: optimize_ssn returns only with epoch >= epochs_min and
\* nr_conv >= nr_conv_min: never after fewer than 90 steps, and never unless each
\* of the 5 most recent steps had a relative change of sse below rel.
C9_Exit ==
    pc \in {"returned", "raised"} =>
        /\ epoch >= epochs_min
        /\ nr_conv >= nr_conv_min
        /\ epoch - last_nonconv >= nr_conv_min

\* A return after the minimum of epochs, five steps after a step that was not
\* converged and that followed converged steps.
C9_Witness ==
    /\ pc = "returned"
    /\ epoch > epochs_min
    /\ nr_conv = nr_conv_min
    /\ last_nonconv = epoch - nr_conv_min

-----------------------------------------------------------------------------
(* Claims about the mediation standard deviations, checked under SpecStd.  *)

ZeroColumns(mat) == {j \in 1..Len(mat[1]) : ColSum(mat)[j][1] = 0}

\* C11: for every column of eyx (and of eyy) whose sum is zero, the divisor 1 is
\* used, no division by zero occurs, every entry of that column of eyx_hat_std
\* (eyy_hat_std) is 0, and eyx, eyy are not modified.
C11_ZeroColumnIsZero ==
    pc = "med_std" =>
        /\ \A j \in ZeroColumns(pre.eyx) : \A i \in 1..ndim : ret.eyx_hat_std[i][j] = R(0)
        /\ \A j \in ZeroColumns(pre.eyy) : \A i \in 1..ndim : ret.eyy_hat_std[i][j] = R(0)
        /\ \A i \in 1..ndim : \A j \in 1..mdim : IsFinite(ret.eyx_hat_std[i][j])
        /\ \A i \in 1..ndim : \A j \in 1..ndim : IsFinite(ret.eyy_hat_std[i][j])
        /\ arg.eyx = pre.eyx /\ arg.eyy = pre.eyy

-----------------------------------------------------------------------------
(* Claims about vecmat, checked under SpecMat.                             *)

\* The k-th nonzero entry of mz, rows traversed within each column: <<row, col>>.
NthNonzero(mz, k) ==
    CHOOSE p \in (1..Rows(mz)) \X (1..Cols(mz)) :
        /\ mz[p[1]][p[2]] # 0
        /\ Cardinality({q \in (1..Rows(mz)) \X (1..Cols(mz)) :
               /\ mz[q[1]][q[2]] # 0
               /\ q[2] < p[2] \/ (q[2] = p[2] /\ q[1] < p[1])}) = k - 1

\* C12: vecmat(mz) has rows*cols rows and nnz(mz) columns; its k-th column has
\* the k-th nonzero entry of mz (column-major order) at row col*rows + row
\* (counted from 0; here (col - 1) * rows + row) and 0 everywhere else.
C12_VecmatColumns ==
    pc = "mat_done" =>
        LET mz == arg.mz
            r == Rows(mz)
            c == Cols(mz)
            q == count_nonzero(mz)
        IN  /\ Len(ret) = r * c
            /\ \A p \in 1..(r * c) : Len(ret[p]) = q
            /\ \A k \in 1..q : \A p \in 1..(r * c) :
                  LET e == NthNonzero(mz, k)
                  IN  ret[p][k] = IF p = (e[2] - 1) * r + e[1] THEN mz[e[1]][e[2]] ELSE 0

\* A matrix with fewer columns than rows and nonzero entries that differ, not in
\* their row-major order.
C12_Witness ==
    /\ pc = "mat_done"
    /\ Rows(arg.mz) > Cols(arg.mz)
    /\ arg.mz[1][2] = 2 /\ arg.mz[2][1] = 1 /\ arg.mz[3][1] = 2
    /\ count_nonzero(arg.mz) = 3

\* V @ (nonzero entries of mz, column-major) = column-major flattening of mz.
VecmatReproduces ==
    LET mz == arg.mz
        r == Rows(mz)
        c == Cols(mz)
        q == count_nonzero(mz)
        nz == [k \in 1..q |-> mz[NthNonzero(mz, k)[1]][NthNonzero(mz, k)[2]]]
        dot[p \in 1..(r * c), k \in 0..q] ==
            IF k = 0 THEN 0 ELSE dot[p, k - 1] + ret[p][k] * nz[k]
    IN  \A p \in 1..(r * c) :
            dot[p, q] = mz[((p - 1) % r) + 1][((p - 1) \div r) + 1]

\* C13 as stated: for every matrix mz, vecmat(mz) times the vector of the nonzero
\* entries of mz reproduces the column-major flattening of mz.
C13_Reproduces_AnyMatrix == pc = "mat_done" => VecmatReproduces

\* C13, amended: the same for every matrix mz whose entries are 0 or 1 (an
\* identification matrix, which is what vecmat is called on).
C13_Reproduces_Binary ==
    (pc = "mat_done" /\ IsBinary(arg.mz)) => VecmatReproduces

C13_Witness ==
    /\ pc = "mat_done"
    /\ IsBinary(arg.mz)
    /\ Rows(arg.mz) < Cols(arg.mz)
    /\ arg.mz[1][2] = 1 /\ arg.mz[2][1] = 1 /\ arg.mz[1][1] = 0
    /\ count_nonzero(arg.mz) = 3

-----------------------------------------------------------------------------
(* Claims about simulate, checked under SpecSim.                           *)

BadColumns(ymdat) == {j \in 1..Cols(ymdat) : \E i \in 1..Rows(ymdat) : ~IsFinite(ymdat[i][j])}

\* C14: whenever ymdat has a column with a missing value (1 to tau such columns),
\* simulate raises a ValueError naming the requested and the actual sample size;
\* a returned ymdat has exactly tau columns and no missing value.
C14_DefectiveDataRaises ==
    LET bad == Cardinality(BadColumns(arg.ymdat))
    IN  /\ (pc \in {"sim_done", "sim_raised"} /\ bad >= 1) =>
              /\ pc = "sim_raised" /\ err = "ValueError"
              /\ ret = [requested |-> arg.tau, actual |-> arg.tau - bad]
        /\ pc = "sim_done" =>
              /\ Cols(ret.ymdat) = arg.tau
              /\ BadColumns(ret.ymdat) = {}

-----------------------------------------------------------------------------
(* Further claims about the estimation, checked under SpecOpt.             *)

\* C15: for an idy whose y-to-y graph has a cycle, the estimation is aborted with
\* an error: the optimization loop does not run an iteration and estimate_snn does
\* not return fitted mx, my.
C15_CyclicAborted ==
    ~Acyclic(idy) => (epoch = 0 /\ pc # "returned")

-----------------------------------------------------------------------------
(* Claims about create_model, checked under SpecCreate.                    *)

\* C16: create_model raises a ValueError whenever the number of rows of ymdat
\* differs from the number of declared manifest variables ymvars, and model_dat
\* is then as it was before the call: no key added, no value changed.
C16_DimensionError ==
    (pc \in {"created", "create_raised"} /\ pre.ymdat_rows # Len(pre.ymvars)) =>
        /\ pc = "create_raised"
        /\ err = "ValueError"
        /\ ret = None
        /\ arg = pre

\* The test of the dimensions itself raised: all ymvars are yvars, ymdat has a
\* row too many.
C16_Witness ==
    /\ pc = "create_raised"
    /\ ~IndexRaises(pre.yvars, pre.ymvars)
    /\ Len(pre.ymvars) = 2
    /\ pre.ymdat_rows = 3
    /\ arg.keys = ConfigKeys

\* |a - b| / b < rel for integers a, b: false for b = 0, where the ratio is inf or nan.
RelativeChangeSmall(a, b) ==
    /\ b # 0
    /\ b > 0 => Abs(a - b) <= (b - 1) \div RelInv

C17_CounterIsRun ==
    pc = "loop" =>
        /\ nr_conv = epoch - last_nonconv
        /\ 0 <= nr_conv /\ nr_conv <= epoch
        /\ epoch = 1 => (nr_conv = 0 /\ sse_old = 0)

C17_StepRule ==
    epoch' # epoch =>
        /\ epoch' = epoch + 1
        /\ sse_old' = sse
        /\ nr_conv' = IF RelativeChangeSmall(sse', sse) THEN nr_conv + 1 ELSE 0

\* C17: every iteration of optimize_ssn adds 1 to epoch, and adds 1 to nr_conv if
\* |sse - sse_old| / sse_old < rel, where sse_old is the sse of the iteration
\* before (0 in the first iteration), and sets nr_conv to 0 otherwise; nr_conv is
\* the length of the current run of converged steps, 0 <= nr_conv <= epoch, and
\* the first iteration does not count as converged.
C17_Counter == [](C17_CounterIsRun) /\ [][C17_StepRule]_vars

\* A run of converged steps with a changing sse, after a step that was not
\* converged.
C17_Witness ==
    /\ pc = "loop"
    /\ nr_conv >= 2
    /\ last_nonconv >= 2
    /\ sse # sse_old
    /\ sse_old # 0

\* The current run of converged steps is at least nr_conv_min long and at least
\* epochs_min steps were made.
SustainedConvergence ==
    epoch >= epochs_min /\ epoch - last_nonconv >= nr_conv_min

\* C18: the loop of optimize_ssn has no upper bound on epochs: as long as there
\* were not nr_conv_min converged steps in a row at an epoch >= epochs_min (also
\* with an sse that stays 0), it does not end, however many epochs have passed;
\* it ends exactly when that has happened, at the first such epoch, which is the
\* larger of epochs_min and nr_conv_min steps after the last step not converged.
C18_EndsExactlyOnConvergence ==
    /\ (pc = "loop" /\ ~SustainedConvergence) => ~ENABLED EstimateReturn
    /\ (pc = "loop" /\ SustainedConvergence) =>
           (ENABLED EstimateReturn /\ ~ENABLED OptimizeStep)
    /\ pc \in {"returned", "raised"} =>
           epoch = (IF last_nonconv + nr_conv_min > epochs_min
                        THEN last_nonconv + nr_conv_min ELSE epochs_min)

\* The loop still runs after epochs_min + nr_conv_min epochs, with an sse that
\* has been 0 in the last two iterations.
C18_Witness ==
    /\ pc = "loop"
    /\ epoch >= epochs_min + nr_conv_min
    /\ sse = 0 /\ sse_old = 0
    /\ nr_conv = 0
    /\ ENABLED OptimizeStep

\* C19: in every iteration the forward pass and the objective come before the
\* optimizer step, so after an iteration, and when estimate_snn returns, mx and my
\* are one update ahead of the parameters that sse was evaluated at.
C19_SseOneStepBehind ==
    (pc \in {"loop", "returned"} /\ epoch >= 1) =>
        /\ mx = AdamStep(pre.mx, adam.mx)
        /\ my = AdamStep(pre.my, adam.my)

\* estimate_snn returns parameters that differ from those of the returned sse.
C19_Witness ==
    /\ pc = "returned"
    /\ pre.my # my
    /\ pre.mx # mx

=============================================================================
